---- MODULE Spec2Model ----
(***************************************************************************)
(* SimulatorDriver (detox/src/devices/drivers/SimulatorDriver.js): the      *)
(* driver that allocates simulators through a DeviceRegistry and drives     *)
(* them through boot / launch / shutdown / reset, emitting lifecycle        *)
(* events.  Every `await` of the source is a suspension point: an action    *)
(* of the model runs one async function from one await to the next.         *)
(*                                                                         *)
(* Each caller (a test worker) has at most one driver call in flight; the   *)
(* call's observable steps (registry calls, backend calls and their         *)
(* outcomes, emitted events, log lines) are recorded in trace[w] in the     *)
(* order the code performs them, until the caller takes the outcome.        *)
(***************************************************************************)
EXTENDS Naturals, Sequences, FiniteSets, TLC

VARIABLES
  pc,        \* pc[w]: the await the worker's call is suspended at, "settled" or "idle"
  call,      \* call[w]: the operation and its arguments / local constants
  trace,     \* trace[w]: what the call has done so far, in order
  ret,       \* ret[w]: how the call ended (returned value / thrown error)
  owned,     \* DeviceRegistry bookkeeping: ids currently marked owned
  awards,    \* history: awards[d] = acquireDevice returns of d since its last freeDevice
  devState,  \* backend: the simulator's state behind AppleSimUtils
  invoked    \* history: the callers with a call not yet taken back, oldest invocation first

vars == <<pc, call, trace, ret, owned, awards, devState, invoked>>

----------------------------------------------------------------------------
(* Bounds and input domains *)

None == "none"

\* The process ids a backend launch may return are 1..MaxPid.
MaxPid == 2

\* The callers of the driver: each has at most one call in flight.
Workers == {"w1", "w2"}
Pids == 1..MaxPid
Bundles == {"com.example.app"}
LaunchArgs == {"-detoxServer"}

\* The simulators the backend knows, in the order it reports them.
BackendDevices ==
  << [udid |-> "d1", name |-> "iPhone", os |-> "16"],
     [udid |-> "d2", name |-> "iPhone", os |-> "17"] >>

DeviceIds == {BackendDevices[i].udid : i \in DOMAIN BackendDevices}

\* Overlapping queries: the first matches both simulators, the second only
\* d2, the third none.
Queries ==
  { [name |-> "iPhone"], [name |-> "iPhone", os |-> "17"], [name |-> "iPad"] }

\* Operations that are one backend call and nothing else.
SimpleOps ==
  {"installApp", "uninstallApp", "terminate", "sendToHome", "setLocation", "setPermissions"}

----------------------------------------------------------------------------
(* Values *)

\* A JavaScript array, told apart from a plain object by its only key.
JsList(items) == [list |-> items]

\* renameUDID(_value, key)
RenameUDID(value, key) == IF key = "udid" THEN "id" ELSE key

\* remapSimUtilsObject(device) = _.mapKeys(device, renameUDID)
RemapSimUtilsObject(device) ==
  [nk \in {RenameUDID(device[k], k) : k \in DOMAIN device} |->
     device[CHOOSE k \in DOMAIN device : RenameUDID(device[k], k) = nk]]

\* Trace entries.
Invoked(f, p)     == [k |-> "call", f |-> f, p |-> p]
Resolved(f, p, r) == [k |-> "ok",   f |-> f, p |-> p, r |-> r]
Rejected(f, p)    == [k |-> "fail", f |-> f, p |-> p]
Emitted(f, p)     == [k |-> "emit", f |-> f, p |-> p]
Logged(f, p)      == [k |-> "log",  f |-> f, p |-> p]

NoCall == [op |-> "none"]
Pending == [status |-> "pending"]
Returned(v) == [status |-> "returned", value |-> v]
Threw(f) == [status |-> "threw", from |-> f]

----------------------------------------------------------------------------
(* AppleSimUtils: the device control backend *)

Matches(device, properties) ==
  \A k \in DOMAIN properties : k \in DOMAIN device /\ device[k] = properties[k]

\* applesimutils.getDevicesWithProperties(properties)
ApplesimutilsGetDevicesWithProperties(properties) ==
  SelectSeq(BackendDevices, LAMBDA device : Matches(device, properties))

\* What the backend's state allows to succeed; any backend call may fail.
BackendCanSucceed(f, deviceId) ==
  CASE f = "launch"    -> devState[deviceId] # "Shutdown"
    [] f = "terminate" -> devState[deviceId] = "Running"
    [] OTHER           -> TRUE

\* The simulator's state once backend primitive f has succeeded.
BackendEffect(f, deviceId) ==
  CASE f = "boot"      -> IF devState[deviceId] = "Shutdown" THEN "Booted" ELSE devState[deviceId]
    [] f = "launch"    -> "Running"
    [] f = "terminate" -> "Booted"
    [] f = "shutdown"  -> "Shutdown"
    [] f = "resetContentAndSettings" -> "Shutdown"
    [] OTHER           -> devState[deviceId]

----------------------------------------------------------------------------
(* SimulatorDriver: the callbacks the constructor hands to the registry *)

\* _getDevicesWithProperties(properties): the backend primitive it awaits and
\* the value it resolves to.
GetDevicesWithProperties(properties) ==
  LET devices == ApplesimutilsGetDevicesWithProperties(properties)
  IN  [backend |-> "getDevicesWithProperties",
       value   |-> JsList([i \in DOMAIN devices |-> RemapSimUtilsObject(devices[i])])]

\* A creation callback that resolves to one descriptor: the first listed device.
CreateDeviceWithPropertiesFirst(properties) ==
  LET devices == ApplesimutilsGetDevicesWithProperties(properties)
  IN  [backend |-> "getDevicesWithProperties",
       value   |-> IF devices = <<>> THEN JsList(<<>>) ELSE RemapSimUtilsObject(devices[1])]

\* _createDeviceWithProperties(properties): the class declares it twice and
\* the second declaration (lines 39-42) is the one the prototype keeps.  It
\* awaits the backend's getDevicesWithProperties and resolves to a list.
CreateDeviceWithProperties(properties) ==
  LET devices == ApplesimutilsGetDevicesWithProperties(properties)
  IN  [backend |-> "getDevicesWithProperties",
       value   |-> JsList([i \in DOMAIN devices |-> RemapSimUtilsObject(devices[i])])]

----------------------------------------------------------------------------
(* DeviceRegistry *)

\* The id field of what the creation callback resolved to, if it has one.
IdOf(created) == IF "id" \in DOMAIN created THEN created.id ELSE None

\* Devices matching the query that the registry does not hold as owned.
FreeMatches(properties, own) ==
  SelectSeq(GetDevicesWithProperties(properties).value.list,
            LAMBDA device : device.id \notin own)

\* acquireDevice(query), one critical section: the id it resolves to.
\* listOk / createOk: whether the backend call behind each callback succeeds.
AcquireDevice(properties, own, listOk, createOk) ==
  IF ~listOk THEN None
  ELSE IF FreeMatches(properties, own) # <<>> THEN FreeMatches(properties, own)[1].id
  ELSE IF ~createOk THEN None
  ELSE IdOf(CreateDeviceWithProperties(properties).value)

\* The backend calls acquireDevice makes through the callbacks, in order.
AcquireDeviceCalls(properties, own, listOk, createOk) ==
  LET get    == GetDevicesWithProperties(properties)
      create == CreateDeviceWithProperties(properties)
      p      == [properties |-> properties]
  IN  <<Invoked(get.backend, p)>>
      \o (IF ~listOk THEN <<Rejected(get.backend, p)>>
          ELSE <<Resolved(get.backend, p, get.value)>>
               \o (IF FreeMatches(properties, own) # <<>> THEN <<>>
                   ELSE <<Invoked("callback.createDeviceWithProperties", p),
                          Invoked(create.backend, p)>>
                        \o (IF createOk THEN <<Resolved(create.backend, p, create.value)>>
                            ELSE <<Rejected(create.backend, p)>>)))

----------------------------------------------------------------------------
(* Async plumbing: a call is entered, suspended at an await, and settled *)

\* A caller with no call in flight enters an async function, which runs to
\* its first await.
Enter(w, c, entries, next) ==
  /\ pc[w] = "idle"
  /\ call'  = [call  EXCEPT ![w] = c]
  /\ trace' = [trace EXCEPT ![w] = entries]
  /\ ret'   = [ret   EXCEPT ![w] = Pending]
  /\ pc'    = [pc    EXCEPT ![w] = next]
  /\ invoked' = Append(invoked, w)

\* The call runs from one await to the next.
Suspend(w, entries, next) ==
  /\ trace' = [trace EXCEPT ![w] = @ \o entries]
  /\ pc'    = [pc    EXCEPT ![w] = next]
  /\ UNCHANGED <<call, ret, invoked>>

\* The call's promise settles: it returns a value or rethrows a rejection.
Settle(w, entries, result) ==
  /\ trace' = [trace EXCEPT ![w] = @ \o entries]
  /\ ret'   = [ret   EXCEPT ![w] = result]
  /\ pc'    = [pc    EXCEPT ![w] = "settled"]
  /\ UNCHANGED <<call, invoked>>

\* The caller, who awaited the call, takes its outcome and is free to make
\* its next call.
Resume(w) ==
  /\ pc[w] = "settled"
  /\ pc'    = [pc    EXCEPT ![w] = "idle"]
  /\ call'  = [call  EXCEPT ![w] = NoCall]
  /\ trace' = [trace EXCEPT ![w] = <<>>]
  /\ ret'   = [ret   EXCEPT ![w] = Pending]
  /\ invoked' = SelectSeq(invoked, LAMBDA v : v # w)
  /\ UNCHANGED <<owned, awards, devState>>

\* The awaited backend primitive f succeeds on the call's device.
BackendOk(w, f) ==
  /\ BackendCanSucceed(f, call[w].deviceId)
  /\ devState' = [devState EXCEPT ![call[w].deviceId] = BackendEffect(f, call[w].deviceId)]

----------------------------------------------------------------------------
(* SimulatorDriver.boot, lines 103-106 *)

\* boot(deviceId) up to its first await: the backend boot is invoked.
BootEntered(deviceId) == <<Invoked("boot", [deviceId |-> deviceId])>>

\* A boot that emits bootDevice whether or not the backend boot succeeded.
BootSettledAlways(w) ==
  /\ pc[w] = "boot"
  /\ UNCHANGED <<owned, awards>>
  /\ LET p == [deviceId |-> call[w].deviceId] IN
     \/ \E coldBoot \in BOOLEAN :
          /\ BackendOk(w, "boot")
          /\ Suspend(w, <<Resolved("boot", p, coldBoot),
                          Emitted("bootDevice", [coldBoot |-> coldBoot, deviceId |-> call[w].deviceId])>>,
                     "bootEmit")
     \/ /\ UNCHANGED devState
        /\ Suspend(w, <<Rejected("boot", p),
                        Emitted("bootDevice", [coldBoot |-> FALSE, deviceId |-> call[w].deviceId])>>,
                   "bootEmit")

\* A boot whose failure inside acquireFreeDevice gives the awarded id back
\* to the registry.
BootSettledReleases(w) ==
  /\ pc[w] = "boot"
  /\ LET p == [deviceId |-> call[w].deviceId] IN
     \/ \E coldBoot \in BOOLEAN :
          /\ UNCHANGED <<owned, awards>>
          /\ BackendOk(w, "boot")
          /\ Suspend(w, <<Resolved("boot", p, coldBoot),
                          Emitted("bootDevice", [coldBoot |-> coldBoot, deviceId |-> call[w].deviceId])>>,
                     "bootEmit")
     \/ /\ UNCHANGED devState
        /\ IF call[w].op = "acquireFreeDevice"
           THEN /\ owned'  = owned \ {call[w].deviceId}
                /\ awards' = [awards EXCEPT ![call[w].deviceId] = 0]
           ELSE UNCHANGED <<owned, awards>>
        /\ Settle(w, <<Rejected("boot", p)>>, Threw("boot"))

\* The backend boot settles: on success coldBoot is bound and bootDevice is
\* emitted (line 105); on failure the rejection leaves boot and its caller.
BootSettled(w) ==
  /\ pc[w] = "boot"
  /\ UNCHANGED <<owned, awards>>
  /\ LET p == [deviceId |-> call[w].deviceId] IN
     \/ \E coldBoot \in BOOLEAN :
          /\ BackendOk(w, "boot")
          /\ Suspend(w, <<Resolved("boot", p, coldBoot),
                          Emitted("bootDevice", [coldBoot |-> coldBoot, deviceId |-> call[w].deviceId])>>,
                     "bootEmit")
     \/ /\ UNCHANGED devState
        /\ Settle(w, <<Rejected("boot", p)>>, Threw("boot"))

\* The emitter's promise resolves and boot returns to whoever awaited it:
\* boot's own caller, acquireFreeDevice (line 87: return deviceId) or
\* resetContentAndSettings (line 149).
BootEmitted(w) ==
  /\ pc[w] = "bootEmit"
  /\ UNCHANGED <<owned, awards, devState>>
  /\ Settle(w, <<>>,
            IF call[w].op = "acquireFreeDevice" THEN Returned(call[w].deviceId)
            ELSE Returned(None))

\* A caller invokes boot(deviceId).
Boot(w) ==
  /\ \E deviceId \in DeviceIds :
       Enter(w, [op |-> "boot", deviceId |-> deviceId], BootEntered(deviceId), "boot")
  /\ UNCHANGED <<owned, awards, devState>>

----------------------------------------------------------------------------
(* SimulatorDriver.acquireFreeDevice, lines 78-88 *)

\* A caller invokes acquireFreeDevice(name); it awaits the registry.
AcquireFreeDevice(w) ==
  /\ \E name \in Queries :
       Enter(w, [op |-> "acquireFreeDevice", name |-> name, deviceId |-> None],
             <<Invoked("acquireDevice", [query |-> name])>>, "acquireDevice")
  /\ UNCHANGED <<owned, awards, devState>>

\* The registry's critical section runs and marks the id it awards as owned.
RegistryAcquire(w, deviceId) ==
  /\ owned'  = IF deviceId = None THEN owned ELSE owned \cup {deviceId}
  /\ awards' = IF deviceId = None THEN awards
               ELSE [awards EXCEPT ![deviceId] = @ + 1]
  /\ call'   = [call EXCEPT ![w].deviceId = deviceId]

\* An acquireFreeDevice that returns the id without awaiting boot.
AcquireResumedNoBoot(w, deviceId, calls) ==
  /\ trace' = [trace EXCEPT ![w] =
                 @ \o calls \o <<Resolved("acquireDevice", [query |-> call[w].name], deviceId)>>
                   \o (IF deviceId # None THEN <<>>
                       ELSE <<Logged("error", [event |-> "ACQUIRE_DEVICE_ERROR"])>>)]
  /\ pc'  = [pc  EXCEPT ![w] = "settled"]
  /\ ret' = [ret EXCEPT ![w] = Returned(deviceId)]
  /\ UNCHANGED invoked

\* An acquireFreeDevice that throws when the registry resolves to nothing.
AcquireResumedThrows(w, deviceId, calls) ==
  /\ trace' = [trace EXCEPT ![w] =
                 @ \o calls \o <<Resolved("acquireDevice", [query |-> call[w].name], deviceId)>>
                   \o (IF deviceId # None THEN BootEntered(deviceId)
                       ELSE <<Logged("error", [event |-> "ACQUIRE_DEVICE_ERROR"])>>)]
  /\ pc'  = [pc  EXCEPT ![w] = IF deviceId # None THEN "boot" ELSE "settled"]
  /\ ret' = [ret EXCEPT ![w] = IF deviceId # None THEN Pending ELSE Threw("acquireDevice")]
  /\ UNCHANGED invoked

\* What acquireFreeDevice does with the id the registry resolved to
\* (lines 81-87): boot it, or log the failure and return it as it is.
AcquireResumed(w, deviceId, calls) ==
  /\ trace' = [trace EXCEPT ![w] =
                 @ \o calls \o <<Resolved("acquireDevice", [query |-> call[w].name], deviceId)>>
                   \o (IF deviceId # None THEN BootEntered(deviceId)
                       ELSE <<Logged("error", [event |-> "ACQUIRE_DEVICE_ERROR"])>>)]
  /\ pc'  = [pc  EXCEPT ![w] = IF deviceId # None THEN "boot" ELSE "settled"]
  /\ ret' = [ret EXCEPT ![w] = IF deviceId # None THEN Pending ELSE Returned(deviceId)]
  /\ UNCHANGED invoked

\* registry.acquireDevice(name) settles and acquireFreeDevice resumes.
AcquireSettled(w) ==
  /\ pc[w] = "acquireDevice"
  /\ UNCHANGED devState
  /\ \E listOk \in BOOLEAN, createOk \in BOOLEAN :
       LET deviceId == AcquireDevice(call[w].name, owned, listOk, createOk)
           calls    == AcquireDeviceCalls(call[w].name, owned, listOk, createOk)
       IN  /\ RegistryAcquire(w, deviceId)
           /\ AcquireResumed(w, deviceId, calls)

----------------------------------------------------------------------------
(* SimulatorDriver.launchApp, lines 116-122 *)

\* A launchApp that announces itself with the wrong event kind.
LaunchAppEnteredWrongKind(c) ==
  <<Emitted("launchApp",
            [bundleId |-> c.bundleId, deviceId |-> c.deviceId, launchArgs |-> c.launchArgs])>>

\* launchApp up to its first await: beforeLaunchApp is emitted (line 117).
LaunchAppEntered(c) ==
  <<Emitted("beforeLaunchApp",
            [bundleId |-> c.bundleId, deviceId |-> c.deviceId, launchArgs |-> c.launchArgs])>>

\* A caller invokes launchApp(deviceId, bundleId, launchArgs).
LaunchApp(w) ==
  /\ \E deviceId \in DeviceIds, bundleId \in Bundles, launchArgs \in LaunchArgs :
       LET c == [op |-> "launchApp", deviceId |-> deviceId,
                 bundleId |-> bundleId, launchArgs |-> launchArgs]
       IN  Enter(w, c, LaunchAppEntered(c), "beforeLaunchEmit")
  /\ UNCHANGED <<owned, awards, devState>>

\* The emitter's promise resolves; the backend launch is invoked (line 118).
BeforeLaunchEmitted(w) ==
  /\ pc[w] = "beforeLaunchEmit"
  /\ UNCHANGED <<owned, awards, devState>>
  /\ Suspend(w, <<Invoked("launch", [deviceId |-> call[w].deviceId, bundleId |-> call[w].bundleId,
                                     launchArgs |-> call[w].launchArgs])>>,
             "launch")

\* A launchApp that emits its launchApp event without awaiting the backend.
LaunchSettledEager(w) ==
  /\ pc[w] = "launch"
  /\ UNCHANGED <<owned, awards>>
  /\ LET p == [deviceId |-> call[w].deviceId, bundleId |-> call[w].bundleId,
               launchArgs |-> call[w].launchArgs] IN
     \/ \E pid \in Pids :
          /\ BackendOk(w, "launch")
          /\ trace' = [trace EXCEPT ![w] =
                         @ \o <<Emitted("launchApp",
                                        [bundleId |-> call[w].bundleId, deviceId |-> call[w].deviceId,
                                         launchArgs |-> call[w].launchArgs, pid |-> pid]),
                                Resolved("launch", p, pid)>>]
          /\ call' = [call EXCEPT ![w] = [pid |-> pid] @@ @]
          /\ pc' = [pc EXCEPT ![w] = "launchEmit"]
          /\ UNCHANGED <<ret, invoked>>
     \/ /\ UNCHANGED devState
        /\ Settle(w, <<Rejected("launch", p)>>, Threw("launch"))

\* A launchApp that emits its launchApp event although the launch failed.
LaunchSettledEmitsOnFailure(w) ==
  /\ pc[w] = "launch"
  /\ UNCHANGED <<owned, awards>>
  /\ LET p == [deviceId |-> call[w].deviceId, bundleId |-> call[w].bundleId,
               launchArgs |-> call[w].launchArgs] IN
     \/ \E pid \in Pids :
          /\ BackendOk(w, "launch")
          /\ trace' = [trace EXCEPT ![w] =
                         @ \o <<Resolved("launch", p, pid),
                                Emitted("launchApp",
                                        [bundleId |-> call[w].bundleId, deviceId |-> call[w].deviceId,
                                         launchArgs |-> call[w].launchArgs, pid |-> pid])>>]
          /\ call' = [call EXCEPT ![w] = [pid |-> pid] @@ @]
          /\ pc' = [pc EXCEPT ![w] = "launchEmit"]
          /\ UNCHANGED <<ret, invoked>>
     \/ /\ UNCHANGED devState
        /\ Settle(w, <<Rejected("launch", p),
                       Emitted("launchApp",
                               [bundleId |-> call[w].bundleId, deviceId |-> call[w].deviceId,
                                launchArgs |-> call[w].launchArgs, pid |-> None])>>,
                  Threw("launch"))

\* The backend launch settles: on success pid is bound and launchApp is
\* emitted with it (line 119); on failure the rejection leaves launchApp.
LaunchSettled(w) ==
  /\ pc[w] = "launch"
  /\ UNCHANGED <<owned, awards>>
  /\ LET p == [deviceId |-> call[w].deviceId, bundleId |-> call[w].bundleId,
               launchArgs |-> call[w].launchArgs] IN
     \/ \E pid \in Pids :
          /\ BackendOk(w, "launch")
          /\ trace' = [trace EXCEPT ![w] =
                         @ \o <<Resolved("launch", p, pid),
                                Emitted("launchApp",
                                        [bundleId |-> call[w].bundleId, deviceId |-> call[w].deviceId,
                                         launchArgs |-> call[w].launchArgs, pid |-> pid])>>]
          /\ call' = [call EXCEPT ![w] = [pid |-> pid] @@ @]
          /\ pc' = [pc EXCEPT ![w] = "launchEmit"]
          /\ UNCHANGED <<ret, invoked>>
     \/ /\ UNCHANGED devState
        /\ Settle(w, <<Rejected("launch", p)>>, Threw("launch"))

\* The emitter's promise resolves and launchApp returns pid (line 121).
LaunchEmitted(w) ==
  /\ pc[w] = "launchEmit"
  /\ UNCHANGED <<owned, awards, devState>>
  /\ Settle(w, <<>>, Returned(call[w].pid))

----------------------------------------------------------------------------
(* SimulatorDriver.shutdown, lines 132-135 *)

\* shutdown(deviceId) up to its first await: the backend shutdown is invoked.
ShutdownEntered(deviceId) == <<Invoked("shutdown", [deviceId |-> deviceId])>>

\* A caller invokes shutdown(deviceId).
Shutdown(w) ==
  /\ \E deviceId \in DeviceIds :
       Enter(w, [op |-> "shutdown", deviceId |-> deviceId], ShutdownEntered(deviceId), "shutdown")
  /\ UNCHANGED <<owned, awards, devState>>

\* A shutdown that emits shutdownDevice before it looks at the outcome.
ShutdownSettledAlways(w) ==
  /\ pc[w] = "shutdown"
  /\ UNCHANGED <<owned, awards>>
  /\ LET p == [deviceId |-> call[w].deviceId] IN
     \/ /\ BackendOk(w, "shutdown")
        /\ Suspend(w, <<Resolved("shutdown", p, None),
                        Emitted("shutdownDevice", [deviceId |-> call[w].deviceId])>>,
                   "shutdownEmit")
     \/ /\ UNCHANGED devState
        /\ Settle(w, <<Emitted("shutdownDevice", [deviceId |-> call[w].deviceId]),
                       Rejected("shutdown", p)>>, Threw("shutdown"))

\* The backend shutdown settles: on success shutdownDevice is emitted
\* (line 134); on failure the rejection leaves shutdown and its caller.
ShutdownSettled(w) ==
  /\ pc[w] = "shutdown"
  /\ UNCHANGED <<owned, awards>>
  /\ LET p == [deviceId |-> call[w].deviceId] IN
     \/ /\ BackendOk(w, "shutdown")
        /\ Suspend(w, <<Resolved("shutdown", p, None),
                        Emitted("shutdownDevice", [deviceId |-> call[w].deviceId])>>,
                   "shutdownEmit")
     \/ /\ UNCHANGED devState
        /\ Settle(w, <<Rejected("shutdown", p)>>, Threw("shutdown"))

\* A shutdown that also gives the device back to the registry.
ShutdownEmittedFrees(w) ==
  /\ pc[w] = "shutdownEmit"
  /\ UNCHANGED devState
  /\ owned'  = owned \ {call[w].deviceId}
  /\ awards' = [awards EXCEPT ![call[w].deviceId] = 0]
  /\ IF call[w].op = "resetContentAndSettings"
     THEN Suspend(w, <<Invoked("resetContentAndSettings", [deviceId |-> call[w].deviceId])>>, "reset")
     ELSE Settle(w, <<>>, Returned(None))

\* The emitter's promise resolves and shutdown returns: to its own caller,
\* or to resetContentAndSettings, which goes on to the backend wipe (line 147).
ShutdownEmitted(w) ==
  /\ pc[w] = "shutdownEmit"
  /\ UNCHANGED <<owned, awards, devState>>
  /\ IF call[w].op = "resetContentAndSettings"
     THEN Suspend(w, <<Invoked("resetContentAndSettings", [deviceId |-> call[w].deviceId])>>, "reset")
     ELSE Settle(w, <<>>, Returned(None))

----------------------------------------------------------------------------
(* SimulatorDriver.resetContentAndSettings, lines 145-149 *)

\* A resetContentAndSettings that wipes the device without shutting it down.
ResetContentAndSettingsNoShutdown(w) ==
  /\ \E deviceId \in DeviceIds :
       Enter(w, [op |-> "resetContentAndSettings", deviceId |-> deviceId],
             <<Invoked("resetContentAndSettings", [deviceId |-> deviceId])>>, "reset")
  /\ UNCHANGED <<owned, awards, devState>>

\* A caller invokes resetContentAndSettings(deviceId), which awaits shutdown.
ResetContentAndSettings(w) ==
  /\ \E deviceId \in DeviceIds :
       Enter(w, [op |-> "resetContentAndSettings", deviceId |-> deviceId],
             ShutdownEntered(deviceId), "shutdown")
  /\ UNCHANGED <<owned, awards, devState>>

\* A resetContentAndSettings that swallows a failed wipe and boots anyway.
ResetSettledSwallows(w) ==
  /\ pc[w] = "reset"
  /\ UNCHANGED <<owned, awards>>
  /\ LET p == [deviceId |-> call[w].deviceId] IN
     \/ /\ BackendOk(w, "resetContentAndSettings")
        /\ Suspend(w, <<Resolved("resetContentAndSettings", p, None)>>
                      \o BootEntered(call[w].deviceId), "boot")
     \/ /\ UNCHANGED devState
        /\ Suspend(w, <<Rejected("resetContentAndSettings", p)>>
                      \o BootEntered(call[w].deviceId), "boot")

\* The backend wipe settles: on success boot is awaited (line 148); on
\* failure the rejection leaves resetContentAndSettings.
ResetSettled(w) ==
  /\ pc[w] = "reset"
  /\ UNCHANGED <<owned, awards>>
  /\ LET p == [deviceId |-> call[w].deviceId] IN
     \/ /\ BackendOk(w, "resetContentAndSettings")
        /\ Suspend(w, <<Resolved("resetContentAndSettings", p, None)>>
                      \o BootEntered(call[w].deviceId), "boot")
     \/ /\ UNCHANGED devState
        /\ Settle(w, <<Rejected("resetContentAndSettings", p)>>, Threw("resetContentAndSettings"))

----------------------------------------------------------------------------
(* SimulatorDriver.cleanup, lines 73-76 *)

\* A caller invokes cleanup(deviceId, bundleId); it awaits registry.freeDevice.
Cleanup(w) ==
  /\ \E deviceId \in DeviceIds, bundleId \in Bundles :
       Enter(w, [op |-> "cleanup", deviceId |-> deviceId, bundleId |-> bundleId],
             <<Invoked("freeDevice", [deviceId |-> deviceId])>>, "freeDevice")
  /\ UNCHANGED <<owned, awards, devState>>

\* DeviceRegistry.freeDevice(deviceId): clears the id's ownership; a no-op
\* for an id that is not owned.
RegistryFree(deviceId) ==
  /\ owned'  = owned \ {deviceId}
  /\ awards' = [awards EXCEPT ![deviceId] = 0]

\* A cleanup that goes on to super.cleanup without having freed the device.
FreeSettledSkipped(w) ==
  /\ pc[w] = "freeDevice"
  /\ UNCHANGED <<devState, owned, awards>>
  /\ Suspend(w, <<Invoked("super.cleanup", [deviceId |-> call[w].deviceId, bundleId |-> call[w].bundleId])>>,
             "superCleanup")

\* A cleanup whose freeDevice rejects an id that is not owned.
FreeSettledRejectsUnowned(w) ==
  /\ pc[w] = "freeDevice"
  /\ UNCHANGED devState
  /\ RegistryFree(call[w].deviceId)
  /\ IF call[w].deviceId \in owned
     THEN Suspend(w, <<Resolved("freeDevice", [deviceId |-> call[w].deviceId], None),
                       Invoked("super.cleanup", [deviceId |-> call[w].deviceId, bundleId |-> call[w].bundleId])>>,
                  "superCleanup")
     ELSE Settle(w, <<Rejected("freeDevice", [deviceId |-> call[w].deviceId])>>, Threw("freeDevice"))

\* registry.freeDevice settles and cleanup awaits super.cleanup (line 75).
FreeSettled(w) ==
  /\ pc[w] = "freeDevice"
  /\ UNCHANGED devState
  /\ RegistryFree(call[w].deviceId)
  /\ Suspend(w, <<Resolved("freeDevice", [deviceId |-> call[w].deviceId], None),
                  Invoked("super.cleanup", [deviceId |-> call[w].deviceId, bundleId |-> call[w].bundleId])>>,
             "superCleanup")

\* IosDriver.cleanup settles, either way.
SuperCleanupSettled(w) ==
  /\ pc[w] = "superCleanup"
  /\ UNCHANGED <<owned, awards, devState>>
  /\ LET p == [deviceId |-> call[w].deviceId, bundleId |-> call[w].bundleId] IN
     \/ Settle(w, <<Resolved("super.cleanup", p, None)>>, Returned(None))
     \/ Settle(w, <<Rejected("super.cleanup", p)>>, Threw("super.cleanup"))

----------------------------------------------------------------------------
(* installApp, uninstallApp, terminate, sendToHome, setLocation and         *)
(* setPermissions (lines 108-114, 124-130, 137-143): one awaited backend    *)
(* call each, of the same name but for install / uninstall.                 *)

BackendOf(op) ==
  CASE op = "installApp"   -> "install"
    [] op = "uninstallApp" -> "uninstall"
    [] OTHER               -> op

\* A caller invokes one of them on a device.
SimpleOp(w) ==
  /\ \E op \in SimpleOps, deviceId \in DeviceIds :
       Enter(w, [op |-> op, deviceId |-> deviceId],
             <<Invoked(BackendOf(op), [deviceId |-> deviceId])>>, "simple")
  /\ UNCHANGED <<owned, awards, devState>>

\* An operation that announces its success with an event of its own.
SimpleSettledEmits(w) ==
  /\ pc[w] = "simple"
  /\ UNCHANGED <<owned, awards>>
  /\ LET f == BackendOf(call[w].op)
         p == [deviceId |-> call[w].deviceId] IN
     \/ /\ BackendOk(w, f)
        /\ Settle(w, <<Resolved(f, p, None), Emitted(call[w].op, p)>>, Returned(None))
     \/ /\ UNCHANGED devState
        /\ Settle(w, <<Rejected(f, p)>>, Threw(f))

\* An operation that swallows the backend's rejection and returns normally.
SimpleSettledSwallows(w) ==
  /\ pc[w] = "simple"
  /\ UNCHANGED <<owned, awards>>
  /\ LET f == BackendOf(call[w].op)
         p == [deviceId |-> call[w].deviceId] IN
     \/ /\ BackendOk(w, f)
        /\ Settle(w, <<Resolved(f, p, None)>>, Returned(None))
     \/ /\ UNCHANGED devState
        /\ Settle(w, <<Rejected(f, p)>>, Returned(None))

\* The backend call settles and the operation returns or rethrows.
SimpleSettled(w) ==
  /\ pc[w] = "simple"
  /\ UNCHANGED <<owned, awards>>
  /\ LET f == BackendOf(call[w].op)
         p == [deviceId |-> call[w].deviceId] IN
     \/ /\ BackendOk(w, f)
        /\ Settle(w, <<Resolved(f, p, None)>>, Returned(None))
     \/ /\ UNCHANGED devState
        /\ Settle(w, <<Rejected(f, p)>>, Threw(f))

----------------------------------------------------------------------------
(* The driver after construction, and its callers *)

Init ==
  /\ pc       = [w \in Workers |-> "idle"]
  /\ call     = [w \in Workers |-> NoCall]
  /\ trace    = [w \in Workers |-> <<>>]
  /\ ret      = [w \in Workers |-> Pending]
  /\ owned    = {}
  /\ awards   = [d \in DeviceIds |-> 0]
  /\ devState = [d \in DeviceIds |-> "Shutdown"]
  /\ invoked  = <<>>

Next ==
  \E w \in Workers :
    \/ AcquireFreeDevice(w) \/ AcquireSettled(w)
    \/ Boot(w) \/ BootSettled(w) \/ BootEmitted(w)
    \/ LaunchApp(w) \/ BeforeLaunchEmitted(w) \/ LaunchSettled(w) \/ LaunchEmitted(w)
    \/ Shutdown(w) \/ ShutdownSettled(w) \/ ShutdownEmitted(w)
    \/ ResetContentAndSettings(w) \/ ResetSettled(w)
    \/ Cleanup(w) \/ FreeSettled(w) \/ SuperCleanupSettled(w)
    \/ SimpleOp(w) \/ SimpleSettled(w)
    \/ Resume(w)

Spec == Init /\ [][Next]_vars

----------------------------------------------------------------------------
(* Reading a call's trace *)

IsEmit(e, kind) == e.k = "emit" /\ e.f = kind
IsBackend(e, k, f) == e.k = k /\ e.f = f
Emits(w) == SelectSeq(trace[w], LAMBDA e : e.k = "emit")
Settled(w) == pc[w] = "settled" /\ ret[w].status # "pending"

----------------------------------------------------------------------------
(* C1.  Exclusivity: between two freeDevice calls for a device id, the      *)
(* registry returns that id to at most one acquirer, whatever acquire and   *)
(* cleanup calls interleave; the ids it holds as owned are exactly the ids  *)
(* it has awarded and not yet freed.                                        *)
Exclusivity ==
  \A d \in DeviceIds : awards[d] <= 1 /\ (d \in owned <=> awards[d] = 1)

\* Two acquirers with overlapping queries each hold a device of their own.
ExclusivityWitness ==
  \E w1, w2 \in Workers :
    /\ call[w1].op = "acquireFreeDevice" /\ ret[w1] = Returned("d1")
    /\ call[w2].op = "acquireFreeDevice" /\ ret[w2] = Returned("d2")
    /\ call[w1].name = [name |-> "iPhone"] /\ call[w2].name = [name |-> "iPhone"]
    /\ owned = {"d1", "d2"}

----------------------------------------------------------------------------
(* C2.  Event ordering: a launchApp call that has returned emitted exactly  *)
(* two events, beforeLaunchApp and then launchApp; the backend launch was   *)
(* invoked and resolved between them; both events carry the call's          *)
(* deviceId and bundleId, and the launchApp event carries the pid that      *)
(* the call returned.                                                       *)
EventOrdering ==
  \A w \in Workers :
    (call[w].op = "launchApp" /\ Settled(w) /\ ret[w].status = "returned") =>
      /\ Len(Emits(w)) = 2
      /\ \E i, j, k, l \in DOMAIN trace[w] :
           /\ i < j /\ j < k /\ k < l
           /\ trace[w][i] = Emitted("beforeLaunchApp",
                  [bundleId |-> call[w].bundleId, deviceId |-> call[w].deviceId,
                   launchArgs |-> call[w].launchArgs])
           /\ IsBackend(trace[w][j], "call", "launch")
           /\ IsBackend(trace[w][k], "ok", "launch")
           /\ trace[w][k].r = ret[w].value
           /\ trace[w][l] = Emitted("launchApp",
                  [bundleId |-> call[w].bundleId, deviceId |-> call[w].deviceId,
                   launchArgs |-> call[w].launchArgs, pid |-> ret[w].value])

\* A launchApp call has returned its pid.
EventOrderingWitness ==
  \E w \in Workers : call[w].op = "launchApp" /\ ret[w] = Returned(MaxPid)

----------------------------------------------------------------------------
(* C3.  No premature boot event: every bootDevice event of a call comes     *)
(* after a successful return of the backend boot for the same device id in  *)
(* that call and carries the coldBoot it returned; a call whose backend     *)
(* boot failed has emitted no bootDevice event, whether boot was invoked    *)
(* directly, from acquireFreeDevice or from resetContentAndSettings.        *)
NoPrematureBoot ==
  \A w \in Workers :
    /\ \A i \in DOMAIN trace[w] :
         IsEmit(trace[w][i], "bootDevice") =>
           \E j \in 1..(i - 1) :
             trace[w][j] = Resolved("boot", [deviceId |-> trace[w][i].p.deviceId],
                                    trace[w][i].p.coldBoot)
    /\ (\E j \in DOMAIN trace[w] : IsBackend(trace[w][j], "fail", "boot")) =>
         \A i \in DOMAIN trace[w] : ~IsEmit(trace[w][i], "bootDevice")

\* One call has emitted bootDevice, another's backend boot has failed inside
\* resetContentAndSettings.
NoPrematureBootWitness ==
  \E w1, w2 \in Workers :
    /\ \E i \in DOMAIN trace[w1] : IsEmit(trace[w1][i], "bootDevice")
    /\ call[w2].op = "resetContentAndSettings" /\ ret[w2] = Threw("boot")

----------------------------------------------------------------------------
(* C4.  Cleanup always frees: the step in which cleanup's freeDevice        *)
(* settles leaves the device id unowned, whatever was done to the device    *)
(* before, and it is that step which invokes super.cleanup, so the id is    *)
(* free before the superclass teardown starts and stays free of this call   *)
(* whether the teardown then succeeds or fails; right after the step some   *)
(* query's acquireDevice resolves to the id again.                          *)
CleanupAlwaysFrees ==
  [][\A w \in Workers :
       /\ (pc[w] = "freeDevice" /\ pc'[w] # "freeDevice") =>
            /\ call[w].op = "cleanup"
            /\ pc'[w] = "superCleanup"
            /\ call[w].deviceId \notin owned'
            /\ awards'[call[w].deviceId] = 0
            /\ \E q \in Queries : AcquireDevice(q, owned', TRUE, TRUE) = call[w].deviceId
       /\ (pc'[w] = "superCleanup" /\ pc[w] # "superCleanup") =>
            /\ pc[w] = "freeDevice"
            /\ \E i, j \in DOMAIN trace'[w] :
                 /\ i < j
                 /\ trace'[w][i] = Resolved("freeDevice", [deviceId |-> call[w].deviceId], None)
                 /\ IsBackend(trace'[w][j], "call", "super.cleanup")
       /\ (pc[w] = "superCleanup" /\ pc'[w] = "settled") => UNCHANGED <<owned, awards>>
    ]_vars

\* A device that one caller acquired (and was returned booted) has been
\* freed by another caller's cleanup, whose superclass teardown then failed.
CleanupAlwaysFreesWitness ==
  \E w1, w2 \in Workers :
    /\ call[w1].op = "acquireFreeDevice" /\ ret[w1] = Returned("d2")
    /\ call[w2].op = "cleanup" /\ call[w2].deviceId = "d2"
    /\ ret[w2] = Threw("super.cleanup")
    /\ "d2" \notin owned

----------------------------------------------------------------------------
(* C5.  acquireFreeDevice returns an id only after booting it: a call that  *)
(* has returned an id has, in this order, had the registry resolve to that  *)
(* id, had the backend boot of that id succeed, and emitted bootDevice for  *)
(* it.                                                                      *)
ReturnedBooted ==
  \A w \in Workers :
    ( /\ call[w].op = "acquireFreeDevice" /\ Settled(w)
      /\ ret[w].status = "returned" /\ ret[w].value # None ) =>
      \E i, j, k \in DOMAIN trace[w] :
        /\ i < j /\ j < k
        /\ trace[w][i] = Resolved("acquireDevice", [query |-> call[w].name], ret[w].value)
        /\ IsBackend(trace[w][j], "ok", "boot")
        /\ trace[w][j].p.deviceId = ret[w].value
        /\ IsEmit(trace[w][k], "bootDevice")
        /\ trace[w][k].p.deviceId = ret[w].value

\* acquireFreeDevice has returned d1 to its caller.
ReturnedBootedWitness ==
  \E w \in Workers : call[w].op = "acquireFreeDevice" /\ ret[w] = Returned("d1")

----------------------------------------------------------------------------
(* C6.  Allocation failure is a value: when the registry resolves to no     *)
(* device, acquireFreeDevice returns none at once and does not throw; the   *)
(* call has invoked no backend boot, emitted no event, and holds no device  *)
(* id: the registry marked nothing as owned for it.                         *)
AllocationFailureIsValue ==
  \A w \in Workers :
    ( /\ call[w].op = "acquireFreeDevice"
      /\ \E i \in DOMAIN trace[w] :
           trace[w][i] = Resolved("acquireDevice", [query |-> call[w].name], None) ) =>
      /\ Settled(w)
      /\ ret[w] = Returned(None)
      /\ call[w].deviceId = None
      /\ Emits(w) = <<>>
      /\ \A i \in DOMAIN trace[w] : ~IsBackend(trace[w][i], "call", "boot")
      /\ trace[w][Len(trace[w])] = Logged("error", [event |-> "ACQUIRE_DEVICE_ERROR"])

\* The registry had nothing for the query and the caller got none back.
AllocationFailureWitness ==
  \E w \in Workers :
    /\ call[w].op = "acquireFreeDevice" /\ call[w].name = [name |-> "iPad"]
    /\ ret[w] = Returned(None)

----------------------------------------------------------------------------
(* C7.  Creation fallback: whenever acquireDevice found no free match and   *)
(* called the creation callback, the call made exactly one backend          *)
(* createDeviceWithProperties call and the registry resolved to one id,     *)
(* which it holds as owned from then on.                                    *)
CreationFallback ==
  \A w \in Workers :
    ( /\ call[w].op = "acquireFreeDevice"
      /\ \E i \in DOMAIN trace[w] :
           /\ IsBackend(trace[w][i], "call", "callback.createDeviceWithProperties")
           /\ i + 2 \in DOMAIN trace[w]
           /\ trace[w][i + 2].k = "ok" ) =>
      /\ Len(SelectSeq(trace[w],
                       LAMBDA e : IsBackend(e, "call", "createDeviceWithProperties"))) = 1
      /\ call[w].deviceId # None

----------------------------------------------------------------------------
(* C8.  No premature shutdown event: every shutdownDevice event of a call   *)
(* comes after a successful return of the backend shutdown for the same     *)
(* device id in that call; a call whose backend shutdown failed has         *)
(* emitted no shutdownDevice event and ends by throwing that error.         *)
NoPrematureShutdown ==
  \A w \in Workers :
    /\ \A i \in DOMAIN trace[w] :
         IsEmit(trace[w][i], "shutdownDevice") =>
           \E j \in 1..(i - 1) :
             trace[w][j] = Resolved("shutdown", [deviceId |-> trace[w][i].p.deviceId], None)
    /\ (\E j \in DOMAIN trace[w] : IsBackend(trace[w][j], "fail", "shutdown")) =>
         /\ \A i \in DOMAIN trace[w] : ~IsEmit(trace[w][i], "shutdownDevice")
         /\ Settled(w)
         /\ ret[w] = Threw("shutdown")

\* One call has emitted shutdownDevice, another's backend shutdown has failed
\* inside resetContentAndSettings.
NoPrematureShutdownWitness ==
  \E w1, w2 \in Workers :
    /\ call[w1].op = "shutdown" /\ ret[w1] = Returned(None)
    /\ call[w2].op = "resetContentAndSettings" /\ ret[w2] = Threw("shutdown")

----------------------------------------------------------------------------
(* C9.  resetContentAndSettings: a call that has returned did, in order,    *)
(* a successful backend shutdown, wipe and boot of its device, the boot     *)
(* being the last backend call it made, and emitted bootDevice after it;    *)
(* a call one of whose backend steps failed has thrown that step's error,   *)
(* invoked no backend call after the failed one (no re-boot after a failed  *)
(* shutdown or wipe) and emitted no bootDevice event.  The step in which    *)
(* the call's backend boot succeeds leaves the simulator not Shutdown.      *)
ResetRestoresOrFails ==
  /\ [](\A w \in Workers :
          call[w].op = "resetContentAndSettings" =>
            /\ (Settled(w) /\ ret[w].status = "returned") =>
                 \E i, j, k, l \in DOMAIN trace[w] :
                   /\ i < j /\ j < k /\ k < l
                   /\ IsBackend(trace[w][i], "ok", "shutdown")
                   /\ IsBackend(trace[w][j], "ok", "resetContentAndSettings")
                   /\ IsBackend(trace[w][k], "ok", "boot")
                   /\ trace[w][k].p.deviceId = call[w].deviceId
                   /\ IsEmit(trace[w][l], "bootDevice")
                   /\ trace[w][l].p.deviceId = call[w].deviceId
                   /\ \A m \in DOMAIN trace[w] : trace[w][m].k = "call" => m < k
            /\ \A i \in DOMAIN trace[w] :
                 trace[w][i].k = "fail" =>
                   /\ Settled(w)
                   /\ ret[w] = Threw(trace[w][i].f)
                   /\ i = Len(trace[w])
                   /\ \A m \in DOMAIN trace[w] : ~IsEmit(trace[w][m], "bootDevice")
                   /\ trace[w][i].f # "boot" =>
                        \A m \in DOMAIN trace[w] : ~IsBackend(trace[w][m], "call", "boot"))
  /\ [][\A w \in Workers :
          ( /\ call[w].op = "resetContentAndSettings"
            /\ pc[w] = "boot" /\ pc'[w] = "bootEmit" ) =>
            devState'[call[w].deviceId] # "Shutdown"
       ]_vars

\* The shutdown succeeded and the wipe failed.
ResetRestoresOrFailsWitness ==
  \E w \in Workers :
    /\ call[w].op = "resetContentAndSettings"
    /\ ret[w] = Threw("resetContentAndSettings")
    /\ \E i \in DOMAIN trace[w] : IsEmit(trace[w][i], "shutdownDevice")

----------------------------------------------------------------------------
(* C10.  The backend primitive an event kind belongs to.                    *)
PrimitiveOf(kind) ==
  CASE kind = "bootDevice"      -> "boot"
    [] kind = "shutdownDevice"  -> "shutdown"
    [] OTHER                    -> "launch"

(* C10 as stated: no event of any kind, beforeLaunchApp included, is        *)
(* emitted by a call before the backend call of its operation has returned  *)
(* successfully in that call.                                               *)
NoEventBeforeBackendReturn ==
  \A w \in Workers :
    \A i \in DOMAIN trace[w] :
      trace[w][i].k = "emit" =>
        \E j \in 1..(i - 1) : IsBackend(trace[w][j], "ok", PrimitiveOf(trace[w][i].f))

(* C10 as amended: a bootDevice, launchApp or shutdownDevice event is       *)
(* emitted by a call only after the backend call of its operation has       *)
(* returned successfully in that call, for the same device id; a            *)
(* beforeLaunchApp event is emitted before the call invokes the backend     *)
(* launch at all.                                                           *)
NoEventBeforeBackendReturnButBefore ==
  \A w \in Workers :
    \A i \in DOMAIN trace[w] :
      trace[w][i].k = "emit" =>
        IF trace[w][i].f = "beforeLaunchApp"
        THEN \A j \in 1..(i - 1) : trace[w][j].f # "launch"
        ELSE \E j \in 1..(i - 1) :
               /\ IsBackend(trace[w][j], "ok", PrimitiveOf(trace[w][i].f))
               /\ trace[w][j].p.deviceId = trace[w][i].p.deviceId

\* All four kinds have been emitted: launchApp by one call, and shutdownDevice
\* then bootDevice by a resetContentAndSettings.
NoEventBeforeBackendReturnWitness ==
  \E w1, w2 \in Workers :
    /\ call[w1].op = "launchApp" /\ Len(Emits(w1)) = 2
    /\ call[w2].op = "resetContentAndSettings" /\ Len(Emits(w2)) = 2

----------------------------------------------------------------------------
(* C11.  The lifecycle operations that are not valid on a device in the     *)
(* given state: launchApp before a boot, terminate and sendToHome unless    *)
(* Running, shutdown unless Booted or Running.                              *)
InvalidIn(c, states) ==
  CASE c.op = "launchApp"                  -> states[c.deviceId] = "Shutdown"
    [] c.op \in {"terminate", "sendToHome"} -> states[c.deviceId] # "Running"
    [] c.op = "shutdown"                   -> states[c.deviceId] \notin {"Booted", "Running"}
    [] OTHER                               -> FALSE

(* C11.  Precondition enforcement: a step that invokes launchApp,           *)
(* terminate, sendToHome or shutdown on a device in a state where the       *)
(* operation is not valid ends with the call rejected: it has thrown, has   *)
(* invoked no backend primitive and emitted no event (its trace is empty),  *)
(* and the device's state is unchanged.                                     *)
PreconditionEnforcement ==
  [][\A w \in Workers :
       (pc[w] = "idle" /\ pc'[w] # "idle" /\ InvalidIn(call'[w], devState)) =>
         /\ pc'[w] = "settled"
         /\ ret'[w].status = "threw"
         /\ trace'[w] = <<>>
         /\ devState' = devState
    ]_vars

----------------------------------------------------------------------------
(* C12.  Double free is safe: the step in which a cleanup's freeDevice      *)
(* settles resolves without an error and goes on to super.cleanup, also     *)
(* when the id was not owned (freed before, or never acquired); it leaves   *)
(* the ownership of every other id as it was, and leaves the id unowned     *)
(* and acquirable: some query's acquireDevice resolves to it.  On an id     *)
(* that was not owned the step changes no ownership at all.                 *)
DoubleFreeIsSafe ==
  [][\A w \in Workers :
       (pc[w] = "freeDevice" /\ pc'[w] # "freeDevice") =>
         LET id == call[w].deviceId IN
           /\ pc'[w] = "superCleanup"
           /\ ret'[w] = Pending
           /\ \E i \in DOMAIN trace'[w] :
                trace'[w][i] = Resolved("freeDevice", [deviceId |-> id], None)
           /\ \A i \in DOMAIN trace'[w] : trace'[w][i].k # "fail"
           /\ \A d \in DeviceIds \ {id} :
                (d \in owned' <=> d \in owned) /\ awards'[d] = awards[d]
           /\ id \notin owned'
           /\ \E q \in Queries : AcquireDevice(q, owned', TRUE, TRUE) = id
           /\ id \notin owned => (owned' = owned /\ awards' = awards)
    ]_vars

\* Two cleanups of d1 have both resolved their freeDevice, so that one of
\* them freed an id that was no longer owned, while d2 stays owned.
DoubleFreeIsSafeWitness ==
  \E w1, w2 \in Workers :
    /\ w1 # w2
    /\ call[w1].op = "cleanup" /\ call[w1].deviceId = "d1" /\ ret[w1] = Returned(None)
    /\ call[w2].op = "cleanup" /\ call[w2].deviceId = "d1" /\ pc[w2] = "superCleanup"
    /\ owned = {"d2"}

----------------------------------------------------------------------------
(* C13.  The operations that emit lifecycle events, and the order in which  *)
(* two callers' current calls were invoked.                                 *)
EmittingOps == {"boot", "launchApp", "shutdown", "resetContentAndSettings"}
InvokedBefore(a, b) ==
  \E i, j \in DOMAIN invoked : i < j /\ invoked[i] = a /\ invoked[j] = b

(* C13.  Per-device event order: on one device id, events come in the       *)
(* order in which the emitting operations were invoked: once a call has     *)
(* emitted an event, no call of boot, launchApp, shutdown or                *)
(* resetContentAndSettings that was invoked before it on the same id emits  *)
(* an event any more.                                                       *)
PerDeviceEventOrder ==
  [][\A a, b \in Workers :
       ( /\ InvokedBefore(a, b)
         /\ call[a].op \in EmittingOps /\ call[b].op \in EmittingOps
         /\ call[a].deviceId = call[b].deviceId
         /\ Emits(b) # <<>> ) =>
         Len(SelectSeq(trace'[a], LAMBDA e : e.k = "emit")) <= Len(Emits(a))
    ]_vars

----------------------------------------------------------------------------
(* C14.  The lifecycle operations, and a call that is in flight: invoked    *)
(* and not yet settled.                                                     *)
LifecycleOps ==
  {"boot", "installApp", "launchApp", "terminate", "shutdown", "resetContentAndSettings"}
InFlight(w) == pc[w] \notin {"idle", "settled"}

(* C14.  Per-device serialization: in no reachable state are two lifecycle  *)
(* operations (boot, install, launch, terminate, shutdown, reset) in        *)
(* flight against the same device id.                                       *)
PerDeviceSerialization ==
  \A a, b \in Workers :
    ( /\ a # b
      /\ InFlight(a) /\ call[a].op \in LifecycleOps
      /\ InFlight(b) /\ call[b].op \in LifecycleOps ) =>
      call[a].deviceId # call[b].deviceId

----------------------------------------------------------------------------
(* C15.  terminate: the step in which a terminate call settles either       *)
(* returns, and then the backend terminate succeeded on a Running device    *)
(* and the step moves the device to Booted, or throws the backend's error   *)
(* to the caller, and then the backend terminate was rejected and the step  *)
(* leaves every device's state as it was.  A failure is never turned into   *)
(* a return.                                                                *)
TerminateBackToBooted ==
  [][\A w \in Workers :
       (call[w].op = "terminate" /\ pc[w] = "simple" /\ pc'[w] # "simple") =>
         LET id   == call[w].deviceId
             last == trace'[w][Len(trace'[w])]
         IN  /\ pc'[w] = "settled"
             /\ \/ /\ ret'[w] = Returned(None)
                   /\ last = Resolved("terminate", [deviceId |-> id], None)
                   /\ devState[id] = "Running"
                   /\ devState' = [devState EXCEPT ![id] = "Booted"]
                \/ /\ ret'[w] = Threw("terminate")
                   /\ last = Rejected("terminate", [deviceId |-> id])
                   /\ devState' = devState
    ]_vars

\* On one device, one terminate has returned, leaving the device Booted, and
\* another has then thrown the backend's error.
TerminateBackToBootedWitness ==
  \E w1, w2 \in Workers :
    /\ call[w1].op = "terminate" /\ ret[w1] = Returned(None)
    /\ call[w2].op = "terminate" /\ ret[w2] = Threw("terminate")
    /\ call[w1].deviceId = call[w2].deviceId
    /\ devState[call[w1].deviceId] = "Booted"

----------------------------------------------------------------------------
(* C16.  Ownership frame: a step changes the registry's ownership only if   *)
(* it is the step in which the acquireDevice of an acquireFreeDevice call   *)
(* or the freeDevice of a cleanup call settles; no step of a boot,          *)
(* installApp, uninstallApp, launchApp, terminate, sendToHome, shutdown,    *)
(* resetContentAndSettings, setLocation or setPermissions call changes the  *)
(* ownership of any device id, whether the call goes on, returns or         *)
(* throws, and neither does the boot inside acquireFreeDevice.              *)
OwnershipFrame ==
  [][/\ (owned' # owned \/ awards' # awards) =>
          \E w \in Workers :
            \/ call[w].op = "acquireFreeDevice" /\ pc[w] = "acquireDevice" /\ pc'[w] # pc[w]
            \/ call[w].op = "cleanup" /\ pc[w] = "freeDevice" /\ pc'[w] # pc[w]
     /\ \A w \in Workers :
          ( /\ pc'[w] # pc[w]
            /\ \/ call[w].op \in SimpleOps \cup EmittingOps
               \/ call'[w].op \in SimpleOps \cup EmittingOps ) =>
            UNCHANGED <<owned, awards>>
    ]_vars

\* While d1 is owned, a shutdown of it has returned and a launchApp on it
\* has thrown.
OwnershipFrameWitness ==
  \E w1, w2 \in Workers :
    /\ call[w1].op = "shutdown" /\ ret[w1] = Returned(None)
    /\ call[w2].op = "launchApp" /\ ret[w2] = Threw("launch")
    /\ call[w1].deviceId = "d1" /\ call[w2].deviceId = "d1"
    /\ owned = {"d1"}

----------------------------------------------------------------------------
(* C17.  A failed boot inside acquireFreeDevice: an acquireFreeDevice call  *)
(* whose backend boot was rejected has thrown that error to its caller, so  *)
(* that it returned no id, although the registry had awarded it one, and    *)
(* it has not called freeDevice.  The step in which the boot fails leaves   *)
(* the ownership as it was, and an id that is owned is resolved to by no    *)
(* acquireDevice; an id leaves the owned ids only in the step in which a    *)
(* cleanup's freeDevice settles.                                            *)
FailedBootKeepsOwned ==
  /\ [](\A w \in Workers :
          ( /\ call[w].op = "acquireFreeDevice"
            /\ \E i \in DOMAIN trace[w] : IsBackend(trace[w][i], "fail", "boot") ) =>
            /\ Settled(w)
            /\ ret[w] = Threw("boot")
            /\ call[w].deviceId # None
            /\ \E i \in DOMAIN trace[w] :
                 trace[w][i] = Resolved("acquireDevice", [query |-> call[w].name], call[w].deviceId)
            /\ \A i \in DOMAIN trace[w] : trace[w][i].f # "freeDevice")
  /\ [][/\ \A w \in Workers :
             ( /\ call[w].op = "acquireFreeDevice"
               /\ pc[w] = "boot" /\ pc'[w] = "settled" ) =>
               /\ UNCHANGED <<owned, awards>>
               /\ \A q \in Queries, listOk \in BOOLEAN, createOk \in BOOLEAN :
                    AcquireDevice(q, owned', listOk, createOk) \notin owned'
        /\ \A d \in DeviceIds :
             (d \in owned /\ d \notin owned') =>
               \E w \in Workers :
                 /\ call[w].op = "cleanup" /\ call[w].deviceId = d
                 /\ pc[w] = "freeDevice" /\ pc'[w] = "superCleanup"
       ]_vars

\* The boot of the awarded d1 failed; d1 is still owned, and another
\* acquirer with the same query was given d2.
FailedBootKeepsOwnedWitness ==
  \E w1, w2 \in Workers :
    /\ call[w1].op = "acquireFreeDevice" /\ ret[w1] = Threw("boot")
    /\ call[w1].deviceId = "d1" /\ "d1" \in owned
    /\ call[w2].op = "acquireFreeDevice" /\ call[w2].name = call[w1].name
    /\ ret[w2] = Returned("d2")

----------------------------------------------------------------------------
(* C18.  A failed launch: a launchApp call whose backend launch was         *)
(* rejected has thrown that error to its caller, has bound no pid, and has  *)
(* emitted exactly one event, the beforeLaunchApp it emitted before the     *)
(* launch was invoked; every launchApp event of a call comes after a        *)
(* beforeLaunchApp event of that call for the same device and bundle.       *)
FailedLaunchEmitsOnlyBefore ==
  \A w \in Workers :
    call[w].op = "launchApp" =>
      LET before == Emitted("beforeLaunchApp",
                            [bundleId |-> call[w].bundleId, deviceId |-> call[w].deviceId,
                             launchArgs |-> call[w].launchArgs])
      IN  /\ (\E i \in DOMAIN trace[w] : IsBackend(trace[w][i], "fail", "launch")) =>
               /\ Settled(w)
               /\ ret[w] = Threw("launch")
               /\ "pid" \notin DOMAIN call[w]
               /\ Emits(w) = <<before>>
               /\ trace[w][1] = before
          /\ \A i \in DOMAIN trace[w] :
               IsEmit(trace[w][i], "launchApp") =>
                 \E j \in 1..(i - 1) : trace[w][j] = before

\* One launchApp threw after its beforeLaunchApp event; another went on to
\* emit launchApp.
FailedLaunchEmitsOnlyBeforeWitness ==
  \E w1, w2 \in Workers :
    /\ call[w1].op = "launchApp" /\ ret[w1] = Threw("launch") /\ Len(Emits(w1)) = 1
    /\ call[w2].op = "launchApp" /\ pc[w2] = "launchEmit" /\ Len(Emits(w2)) = 2

----------------------------------------------------------------------------
(* C19.  What a resetContentAndSettings of a device does when every step    *)
(* succeeds, in order.                                                      *)
ResetSequence(deviceId, coldBoot) ==
  LET p == [deviceId |-> deviceId] IN
  << Invoked("shutdown", p), Resolved("shutdown", p, None),
     Emitted("shutdownDevice", p),
     Invoked("resetContentAndSettings", p), Resolved("resetContentAndSettings", p, None),
     Invoked("boot", p), Resolved("boot", p, coldBoot),
     Emitted("bootDevice", [coldBoot |-> coldBoot, deviceId |-> deviceId]) >>

(* C19.  Reset sequence: a resetContentAndSettings call that has returned   *)
(* did exactly this, each step once: backend shutdown, shutdownDevice       *)
(* event, backend wipe, backend boot, bootDevice event.  A call in which a  *)
(* backend step was rejected did the steps before it and nothing after      *)
(* it: a failed shutdown is followed by no wipe and no boot, and a failed   *)
(* wipe leaves the shutdownDevice event emitted and no bootDevice event.    *)
ResetInOrderOnce ==
  \A w \in Workers :
    call[w].op = "resetContentAndSettings" =>
      \E coldBoot \in BOOLEAN :
        LET full == ResetSequence(call[w].deviceId, coldBoot)
            n    == Len(trace[w])
        IN  /\ n <= Len(full)
            /\ (Settled(w) /\ ret[w].status = "returned") => trace[w] = full
            /\ IF trace[w][n].k = "fail"
               THEN /\ SubSeq(trace[w], 1, n - 1) = SubSeq(full, 1, n - 1)
                    /\ trace[w][n] = Rejected(full[n].f, full[n].p)
                    /\ full[n].k = "ok"
                    /\ Settled(w) /\ ret[w] = Threw(full[n].f)
               ELSE trace[w] = SubSeq(full, 1, n)

\* One reset has returned; in another the wipe failed after the
\* shutdownDevice event.
ResetInOrderOnceWitness ==
  \E w1, w2 \in Workers :
    /\ call[w1].op = "resetContentAndSettings" /\ ret[w1] = Returned(None)
    /\ call[w2].op = "resetContentAndSettings" /\ ret[w2] = Threw("resetContentAndSettings")
    /\ Len(Emits(w2)) = 1

----------------------------------------------------------------------------
(* C20.  The operations an event kind is emitted by.                        *)
EmittersOf(kind) ==
  CASE kind = "bootDevice"      -> {"boot", "acquireFreeDevice", "resetContentAndSettings"}
    [] kind = "shutdownDevice"  -> {"shutdown", "resetContentAndSettings"}
    [] kind \in {"beforeLaunchApp", "launchApp"} -> {"launchApp"}
    [] OTHER                    -> {}

(* C20.  Silent operations: a call of installApp, uninstallApp, terminate,  *)
(* sendToHome, setLocation, setPermissions or cleanup has emitted no        *)
(* event; every event a call has emitted is a bootDevice, beforeLaunchApp,  *)
(* launchApp or shutdownDevice event, emitted by boot, launchApp or         *)
(* shutdown, or by acquireFreeDevice (bootDevice) or                        *)
(* resetContentAndSettings (shutdownDevice, bootDevice) through them.       *)
SilentOperations ==
  \A w \in Workers :
    /\ call[w].op \in SimpleOps \cup {"cleanup"} => Emits(w) = <<>>
    /\ \A i \in DOMAIN trace[w] :
         trace[w][i].k = "emit" =>
           /\ trace[w][i].f \in {"bootDevice", "beforeLaunchApp", "launchApp", "shutdownDevice"}
           /\ call[w].op \in EmittersOf(trace[w][i].f)

\* A terminate and a cleanup have both returned.
SilentOperationsWitness ==
  \E w1, w2 \in Workers :
    /\ call[w1].op = "terminate" /\ ret[w1] = Returned(None)
    /\ call[w2].op = "cleanup" /\ ret[w2] = Returned(None)

====
